---- MODULE Spec2Model ----
(***************************************************************************)
(* Trace ingestion core of uptrace (pkg/tracing, TraceServiceServer):      *)
(* Export -> process -> channel -> processLoop -> flushSpans -> store,     *)
(* and the span classifier / fingerprinter assignSystemAndGroupID.         *)
(***************************************************************************)
EXTENDS Integers, Sequences, FiniteSets, TLC

(* ------------------------------ bounds -------------------------------- *)

\* s.batchSize = scaleWithCPU(2000, 32000), scaled down.
batchSize == 3

\* runtime.GOMAXPROCS(0), the number of gate permits.
cores == 1

\* Width in bits of StartTimeUnixNano, EndTimeUnixNano and time.Duration
\* (64 in the code), scaled down.
TimeBits == 4


(* ------------------------------ inputs -------------------------------- *)

\* s.Config().Projects : two projects share a token, as in
\* example/docker/uptrace.yml; the first match wins.
Projects ==
  << [ID |-> 1, Token |-> "t1"],
     [ID |-> 2, Token |-> "t2"],
     [ID |-> 3, Token |-> "t1"] >>

\* The Export calls (ingress tasks) of one run, numbered by arrival.
Calls == {1, 2}

\* ctx.Err() of the request context.
CtxErrs == {"nil", "canceled"}

\* The values a client may send in the uptrace-dsn header.
DSNHeaders ==
  { <<>>, <<"">>, <<"garbage">>, <<"http://host:14317/1">>,
    <<"http://t1@host:14317/1">>, <<"http://t2@host:14317/2">>,
    <<"http://t9@host:14317/9">> }

\* metadata.FromIncomingContext(ctx): ok, and the value of
\* md.Get("uptrace-dsn"), a list of header values.
Metadatas ==
  {[ok |-> FALSE, dsn |-> <<>>]} \cup
  {[ok |-> TRUE, dsn |-> h] : h \in DSNHeaders}

\* req.ResourceSpans : a sequence of ResourceSpans, each a sequence of
\* InstrumentationLibrarySpans, each given by its number of spans.
ReqShapes ==
  { <<>>,
    << <<1>> >>,
    << <<2>> >>,
    << <<1, 1>> >>,
    << <<1>>, <<1>> >> }

\* lib.GetName() of the s-th InstrumentationLibrarySpans of a resource.
LibNames == <<"lib1", "lib2">>

\* The k-th wire span (encounter order) of call c.
WireSpan(c, k) ==
  [ SpanId            |-> 10 * c + k,
    TraceId           |-> 100 + c,
    ParentSpanId      |-> 0,
    StartTimeUnixNano |-> 1000 * c + k ]

(* ------------------------------- state -------------------------------- *)

VARIABLES
  pc,        \* pc[c]      : position of Export call c
  input,     \* input[c]   : ctx.Err() and the metadata call c came with
  req,       \* req[c]     : req.ResourceSpans of call c
  pos,       \* pos[c]     : loop indices (r, s, i) of process
  sent,      \* sent[c]    : number of spans call c has enqueued
  proj,      \* proj[c]    : index into Projects found by findProjectByDSN
  result,    \* result[c]  : the error Export returned
  reslib,    \* reslib[c][r] : resource[xattr.OtelLibraryName] of the r-th map
  ch,        \* s.ch
  spans,     \* processLoop's buffer
  bufId,     \* which allocation (make) the slice spans points into
  bpc,       \* position of the batcher goroutine
  cont,      \* which flushSpans call site the batcher is in
  timer,     \* state of processLoop's timer
  done,      \* s.Done() is closed
  wg,        \* app.WaitGroup() counter
  gate,      \* permits of s.gate in use
  flushers,  \* flusher goroutines in flight
  store,     \* inserts the store has received
  handed,    \* history: batches passed to flushSpans, with the call site
  aborted,   \* the runtime has aborted the process (fatal error)
  cpc,       \* fingerprinter: "idle", "in" (spans built) or "out" (fingerprinted)
  cspan,     \* fingerprinter: the two Spans handed to the digest part of newSpan
  cres,      \* fingerprinter: what newSpan leaves in them
  npc,       \* numeric fields: "idle", "in" (wire span given) or "out" (built)
  wire,      \* numeric fields: start and end time and number of events
  built      \* numeric fields: Duration and EventCount of the rows built

vars == << pc, input, req, pos, sent, proj, result, reslib, ch, spans, bufId,
           bpc, cont, timer, done, wg, gate, flushers, store, handed, aborted,
           cpc, cspan, cres, npc, wire, built >>

pipelineVars == << pc, input, req, pos, sent, proj, result, reslib, ch, spans,
                   bufId, bpc, cont, timer, done, wg, gate, flushers, store,
                   handed, aborted >>
fingerprintVars == << cpc, cspan, cres >>
numericVars == << npc, wire, built >>
builderVars == << fingerprintVars, numericVars >>

ingressVars == << pc, input, req, pos, sent, proj, result, reslib >>
batcherVars == << spans, bufId, bpc, cont, timer, handed >>

(* ------------------------------ Export -------------------------------- *)

NilErr == [kind |-> "nil", code |-> "OK", msg |-> ""]

\* status.Error(code, msg)
StatusError(code, msg) == [kind |-> "status", code |-> code, msg |-> msg]

\* errors.New(msg) / fmt.Errorf(msg)
PlainError(msg) == [kind |-> "plain", code |-> "", msg |-> msg]

\* org.ParseDSN : the token of a DSN scheme://token@host:port/id.
ParseDSN(dsnStr) ==
  CASE dsnStr = "garbage"                -> [err |-> TRUE,  Token |-> ""]
    [] dsnStr = "http://host:14317/1"    -> [err |-> FALSE, Token |-> ""]
    [] dsnStr = "http://t1@host:14317/1" -> [err |-> FALSE, Token |-> "t1"]
    [] dsnStr = "http://t2@host:14317/2" -> [err |-> FALSE, Token |-> "t2"]
    [] dsnStr = "http://t9@host:14317/9" -> [err |-> FALSE, Token |-> "t9"]
    [] OTHER                             -> [err |-> TRUE,  Token |-> ""]

\* The loop of findProjectByDSN: the first project whose token matches.
MatchingProjects(token) ==
  { i \in 1..Len(Projects) : Projects[i].Token = token }

FirstMatch(token) ==
  CHOOSE i \in MatchingProjects(token) :
    \A j \in MatchingProjects(token) : i <= j

findProjectByDSN(dsnStr) ==
  IF dsnStr = ""
  THEN [project |-> 0, err |-> PlainError("uptrace-dsn header can't be empty")]
  ELSE IF ParseDSN(dsnStr).err
  THEN [project |-> 0, err |-> PlainError("parse dsn")]
  ELSE IF ParseDSN(dsnStr).Token = ""
  THEN [project |-> 0, err |-> PlainError("dsn does not contain a token")]
  ELSE IF MatchingProjects(ParseDSN(dsnStr).Token) # {}
  THEN [project |-> FirstMatch(ParseDSN(dsnStr).Token), err |-> NilErr]
  ELSE [project |-> 0, err |-> PlainError("project with token not found")]

\* The checks of Export before s.process.
ExportAuth(ctxErr, md) ==
  IF ctxErr = "canceled"
  THEN [project |-> 0,
        err |-> StatusError("Canceled", "Client cancelled, abandoning.")]
  ELSE IF ~md.ok
  THEN [project |-> 0, err |-> PlainError("metadata is empty")]
  ELSE IF Len(md.dsn) = 0
  THEN [project |-> 0, err |-> PlainError("uptrace-dsn header is required")]
  ELSE findProjectByDSN(md.dsn[1])

(* ------------------------------ process ------------------------------- *)

\* Loop control of process: the first resource at or after r that has an
\* InstrumentationLibrarySpans, 0 when there is none.
RECURSIVE NextResource(_, _)
NextResource(shape, r) ==
  IF r > Len(shape) THEN 0
  ELSE IF Len(shape[r]) > 0 THEN r
  ELSE NextResource(shape, r + 1)

\* Where process stands after finishing scope (r, s).
AfterScope(shape, r, s) ==
  IF s < Len(shape[r])
  THEN [pc |-> "scope", r |-> r, s |-> s + 1, i |-> 0]
  ELSE IF NextResource(shape, r + 1) # 0
  THEN [pc |-> "scope", r |-> NextResource(shape, r + 1), s |-> 1, i |-> 0]
  ELSE [pc |-> "returned", r |-> 0, s |-> 0, i |-> 0]

\* Where process stands on entry.
ProcessEntry(shape) ==
  IF NextResource(shape, 1) # 0
  THEN [pc |-> "scope", r |-> NextResource(shape, 1), s |-> 1, i |-> 0]
  ELSE [pc |-> "returned", r |-> 0, s |-> 0, i |-> 0]

\* Where process stands after overlaying the library name of scope (r, s).
AfterOverlay(shape, r, s) ==
  IF shape[r][s] > 0
  THEN [pc |-> "send", r |-> r, s |-> s, i |-> 1]
  ELSE AfterScope(shape, r, s)

\* Where process stands after sending span i of scope (r, s).
AfterSend(shape, r, s, i) ==
  IF i < shape[r][s]
  THEN [pc |-> "send", r |-> r, s |-> s, i |-> i + 1]
  ELSE AfterScope(shape, r, s)

NoPos == [r |-> 0, s |-> 0, i |-> 0]

PosOf(p) == [r |-> p.r, s |-> p.s, i |-> p.i]

\* Mutant: the channel is made one slot larger than batchSize.
ChanCap_M == batchSize + 1

\* Capacity of s.ch : make(chan otlpSpan, batchSize).
ChanCap == batchSize

\* Export up to its first suspension point.
ExportStart(c) ==
  /\ ~aborted
  /\ pc[c] = "idle"
  /\ ~done
  /\ \A d \in Calls : d < c => pc[d] # "idle"
  /\ \E ctxErr \in CtxErrs, md \in Metadatas, shape \in ReqShapes :
       /\ LET auth == ExportAuth(ctxErr, md)
               ent  == ProcessEntry(shape)
          IN IF auth.err.kind # "nil"
             THEN /\ pc' = [pc EXCEPT ![c] = "returned"]
                  /\ result' = [result EXCEPT ![c] = auth.err]
                  /\ input' = [input EXCEPT ![c] =
                                 [ctxErr |-> ctxErr, md |-> md]]
                  /\ UNCHANGED << req, pos, proj, reslib >>
             ELSE /\ pc' = [pc EXCEPT ![c] = ent.pc]
                  /\ pos' = [pos EXCEPT ![c] = PosOf(ent)]
                  /\ req' = [req EXCEPT ![c] = shape]
                  /\ proj' = [proj EXCEPT ![c] = auth.project]
                  /\ reslib' = [reslib EXCEPT ![c] =
                                  [r \in 1..Len(shape) |-> ""]]
                  /\ result' = [result EXCEPT ![c] = NilErr]
                  /\ input' = [input EXCEPT ![c] =
                                 [ctxErr |-> ctxErr, md |-> md]]
  /\ UNCHANGED << sent, ch, batcherVars, done, wg, gate, flushers, store >>
  /\ UNCHANGED << aborted, builderVars >>

\* Mutant: the overlay keeps a library name that is already in the map.
OverlayName_M(old, s) == IF old = "" THEN LibNames[s] ELSE old

\* The value resource[xattr.OtelLibraryName] has after the overlay of the
\* s-th scope.
OverlayName(old, s) == LibNames[s]

\* resource[xattr.OtelLibraryName] = lib.GetName()
Overlay(c) ==
  /\ ~aborted
  /\ pc[c] = "scope"
  /\ LET p   == pos[c]
         nxt == AfterOverlay(req[c], p.r, p.s)
     IN /\ reslib' = [reslib EXCEPT ![c][p.r] = OverlayName(@, p.s)]
        /\ pc' = [pc EXCEPT ![c] = nxt.pc]
        /\ pos' = [pos EXCEPT ![c] = PosOf(nxt)]
  /\ UNCHANGED << input, req, sent, proj, result, ch, batcherVars, done, wg,
                  gate, flushers, store >>
  /\ UNCHANGED << aborted, builderVars >>

RECURSIVE SumSeq(_)
SumSeq(q) == IF q = <<>> THEN 0 ELSE Head(q) + SumSeq(Tail(q))

\* Number of spans of the resources before r, and of the scopes before s.
RECURSIVE SpansBefore(_, _)
SpansBefore(shape, r) ==
  IF r <= 1 THEN 0
  ELSE SumSeq(shape[r - 1]) + SpansBefore(shape, r - 1)

\* Which span of the request ils.Spans[i] of scope (r, s) is, in encounter
\* order.
FlatIndex(shape, r, s, i) ==
  SpansBefore(shape, r) + SumSeq(SubSeq(shape[r], 1, s - 1)) + i

\* The otlpSpan process sends: project, span and the resource map it shares.
Item(c, k, r) == [call |-> c, k |-> k, project |-> proj[c], res |-> r]

\* s.ch <- otlpSpan{...}
Send(c) ==
  /\ ~aborted
  /\ pc[c] = "send"
  /\ Len(ch) < ChanCap
  /\ LET p   == pos[c]
         nxt == AfterSend(req[c], p.r, p.s, p.i)
     IN /\ ch' = Append(ch, Item(c, FlatIndex(req[c], p.r, p.s, p.i), p.r))
        /\ sent' = [sent EXCEPT ![c] = @ + 1]
        /\ pc' = [pc EXCEPT ![c] = nxt.pc]
        /\ pos' = [pos EXCEPT ![c] = PosOf(nxt)]
  /\ UNCHANGED << input, req, proj, result, reslib, batcherVars, done, wg,
                  gate, flushers, store >>
  /\ UNCHANGED << aborted, builderVars >>

(* ---------------------------- processLoop ----------------------------- *)

\* Number of spans enqueued so far by all calls.
RECURSIVE SumOver(_, _)
SumOver(f, S) ==
  IF S = {} THEN 0
  ELSE LET x == CHOOSE y \in S : TRUE IN f[x] + SumOver(f, S \ {x})

Fed == SumOver(sent, Calls)

\* History entry for one flushSpans call.
Handed(batch, cause) == [items |-> batch, cause |-> cause]

\* Mutant: the batcher puts a received span in front of its buffer.
AppendSpan_M(buf, span) == <<span>> \o buf

\* spans = append(spans, span)
AppendSpan(buf, span) == Append(buf, span)

\* Mutant: the size check is off by one.
BufferFull_M(buf) == Len(buf) = batchSize - 1

\* len(spans) == s.batchSize
BufferFull(buf) == Len(buf) = batchSize

\* Mutant: the timer case flushes without looking at the buffer.
TimerShouldFlush_M(buf) == TRUE

\* len(spans) > 0 in the timer case
TimerShouldFlush(buf) == Len(buf) > 0

\* Mutant: flushSpans does not add to the wait-group.
FlushAdd_M(n) == n

\* s.WaitGroup().Add(1) in flushSpans
FlushAdd(n) == n + 1

\* Mutant: the batcher returns without the residual flush.
ResidualFlush_M(buf) == FALSE

\* len(spans) > 0 after the loop
ResidualFlush(buf) == Len(buf) > 0

\* Mutant: the batcher truncates and reuses the slice it has handed over.
FreshBuffer_M(id) == id

\* spans = make([]otlpSpan, 0, len(spans)) : a new allocation.
FreshBuffer(id) == id + 1

\* case span := <-s.ch, then the size check; flushSpans runs up to gate.Start.
BatcherRecv ==
  /\ ~aborted
  /\ bpc = "select"
  /\ Len(ch) > 0
  /\ ch' = Tail(ch)
  /\ spans' = AppendSpan(spans, Head(ch))
  /\ IF BufferFull(spans')
     THEN /\ wg' = FlushAdd(wg)
          /\ bpc' = "gate"
          /\ cont' = "size"
          /\ handed' = Append(handed, Handed(spans', "size"))
     ELSE UNCHANGED << wg, bpc, cont, handed >>
  /\ UNCHANGED << ingressVars, bufId, timer, done, gate, flushers, store >>
  /\ UNCHANGED << aborted, builderVars >>

\* The timer expires and puts a value in timer.C.
TimerFire ==
  /\ ~aborted
  /\ timer = "armed"
  /\ timer' = "fired"
  /\ UNCHANGED << ingressVars, ch, spans, bufId, bpc, cont, handed, done, wg,
                  gate, flushers, store >>
  /\ UNCHANGED << aborted, builderVars >>

\* case <-timer.C
BatcherTimer ==
  /\ ~aborted
  /\ bpc = "select"
  /\ timer = "fired"
  /\ IF TimerShouldFlush(spans)
     THEN /\ wg' = FlushAdd(wg)
          /\ bpc' = "gate"
          /\ cont' = "timer"
          /\ timer' = "stopped"
          /\ handed' = Append(handed, Handed(spans, "timer"))
     ELSE /\ timer' = "armed"
          /\ UNCHANGED << wg, bpc, cont, handed >>
  /\ UNCHANGED << ingressVars, ch, spans, bufId, done, gate, flushers, store >>
  /\ UNCHANGED << aborted, builderVars >>

\* case <-s.Done(): break loop, then the residual flush or the return.
BatcherDone ==
  /\ ~aborted
  /\ bpc = "select"
  /\ done
  /\ IF ResidualFlush(spans)
     THEN /\ wg' = FlushAdd(wg)
          /\ bpc' = "gate"
          /\ cont' = "shutdown"
          /\ handed' = Append(handed, Handed(spans, "shutdown"))
          /\ UNCHANGED timer
     ELSE /\ wg' = wg - 1
          /\ bpc' = "exited"
          /\ timer' = "stopped"
          /\ UNCHANGED << cont, handed >>
  /\ UNCHANGED << ingressVars, ch, spans, bufId, done, gate, flushers, store >>
  /\ UNCHANGED << aborted, builderVars >>

(* ----------------------------- flushSpans ----------------------------- *)

\* Mutant: the gate is created with one permit too many.
GateCap_M == cores + 1

\* Permits of the gate: syncutil.NewGate(runtime.GOMAXPROCS(0)).
GateCap == cores

\* A flusher goroutine: the slice it was given (contents and allocation),
\* where it stands, and the index rows it has built.
Flusher(batch, buf, stage, index) ==
  [batch |-> batch, buf |-> buf, stage |-> stage, index |-> index]

\* s.gate.Start() returns and the flusher goroutine is spawned; the batcher
\* goes on after the call site.
GateStart ==
  /\ ~aborted
  /\ bpc = "gate"
  /\ gate < GateCap
  /\ gate' = gate + 1
  /\ flushers' = flushers \cup {Flusher(spans, bufId, "start", <<>>)}
  /\ CASE cont = "size" ->
            /\ spans' = <<>>
            /\ bufId' = FreshBuffer(bufId)
            /\ bpc' = "select"
            /\ UNCHANGED << timer, wg >>
       [] cont = "timer" ->
            /\ spans' = <<>>
            /\ bufId' = FreshBuffer(bufId)
            /\ bpc' = "select"
            /\ timer' = "armed"
            /\ UNCHANGED wg
       [] cont = "shutdown" ->
            /\ bpc' = "exited"
            /\ timer' = "stopped"
            /\ wg' = wg - 1
            /\ UNCHANGED << spans, bufId >>
  /\ UNCHANGED << ingressVars, ch, cont, handed, done, store >>
  /\ UNCHANGED << aborted, builderVars >>

\* newSpan, as far as identity, time and the resource attributes go.
newSpan(item) ==
  LET w == WireSpan(item.call, item.k)
  IN [ ProjectID |-> Projects[item.project].ID,
       ID        |-> w.SpanId,
       ParentID  |-> w.ParentSpanId,
       TraceID   |-> w.TraceId,
       Time      |-> w.StartTimeUnixNano,
       Library   |-> reslib[item.call][item.res] ]

\* marshalSpan : the serialization of the full Span.
marshalSpan(span) == span

\* newSpanIndex : index.Span = span
newSpanIndex(span) == [ Span |-> span, Count |-> 1 ]

\* Mutant: newSpanData copies the parent's id into ID.
newSpanData_M(span) ==
  [ TraceID  |-> span.TraceID,
    ID       |-> span.ParentID,
    ParentID |-> span.ParentID,
    Time     |-> span.Time,
    Data     |-> marshalSpan(span) ]

newSpanData(span) ==
  [ TraceID  |-> span.TraceID,
    ID       |-> span.ID,
    ParentID |-> span.ParentID,
    Time     |-> span.Time,
    Data     |-> marshalSpan(span) ]

\* The loop of the flusher over otlpSpans.
BuildSpans(batch) == [i \in 1..Len(batch) |-> newSpan(batch[i])]
BuildIndex(sp) == [i \in 1..Len(sp) |-> newSpanIndex(sp[i])]
BuildData(sp) == [i \in 1..Len(sp) |-> newSpanData(sp[i])]

\* Mutant: a failed insert into spans_data makes the flusher return.
AfterData_M(err) == IF err THEN "return" ELSE "index"

\* Where the flusher goes after the insert into spans_data returned err.
AfterData(err) == "index"

\* The deferred calls of the flusher: WaitGroup().Done(), gate.Done().
FlusherReturn(f) ==
  /\ flushers' = flushers \ {f}
  /\ wg' = wg - 1
  /\ gate' = gate - 1

\* The flusher builds its rows and inserts into spans_data; the insert
\* returns an error or none, and an error is logged and changes nothing else.
FlusherData(f) ==
  /\ ~aborted
  /\ f \in flushers
  /\ f.stage = "start"
  /\ LET sp == BuildSpans(f.batch)
     IN /\ store' = store \cup {[table |-> "spans_data",
                                     rows |-> BuildData(sp)]}
        /\ \E err \in BOOLEAN :
             IF AfterData(err) = "index"
             THEN /\ flushers' = (flushers \ {f}) \cup
                                   {Flusher(f.batch, f.buf, "index",
                                            BuildIndex(sp))}
                  /\ UNCHANGED << wg, gate >>
             ELSE FlusherReturn(f)
  /\ UNCHANGED << ingressVars, ch, batcherVars, done >>
  /\ UNCHANGED << aborted, builderVars >>

\* The flusher inserts into spans_index; an error is logged and changes
\* nothing else; then the deferred calls run.
FlusherIndex(f) ==
  /\ ~aborted
  /\ f \in flushers
  /\ f.stage = "index"
  /\ store' = store \cup {[table |-> "spans_index", rows |-> f.index]}
  /\ \E err \in BOOLEAN : FlusherReturn(f)
  /\ UNCHANGED << ingressVars, ch, batcherVars, done >>
  /\ UNCHANGED << aborted, builderVars >>

\* A flusher's newSpan ranges over a resource map (for k, v := range
\* span.resource) while process writes otel.library.name into the same map:
\* besides reading the old or the new name, which FlusherData does depending
\* on the order of the two steps, the runtime may detect the concurrent map
\* access and abort the process.
ConcurrentMapAccess(c, f) ==
  /\ ~aborted
  /\ pc[c] = "scope"
  /\ f \in flushers
  /\ f.stage = "start"
  /\ \E i \in 1..Len(f.batch) :
       f.batch[i].call = c /\ f.batch[i].res = pos[c].r
  /\ aborted' = TRUE
  /\ UNCHANGED << ingressVars, ch, batcherVars, done, wg, gate, flushers,
                  store, builderVars >>

(* ------------------------------ lifecycle ----------------------------- *)

\* Items enqueued by Export calls that have returned.
EnqueuedByReturned ==
  UNION { { <<c, k>> : k \in 1..sent[c] } :
            c \in { d \in Calls : pc[d] = "returned" /\ result[d].kind = "nil" } }

\* The process signals shutdown: s.Done() is closed.  The transport has
\* stopped by then: no Export call is in progress and none arrives later.
Shutdown ==
  /\ ~aborted
  /\ ~done
  /\ \A c \in Calls : pc[c] \in {"idle", "returned"}
  /\ done' = TRUE
  /\ UNCHANGED << ingressVars, ch, batcherVars, wg, gate, flushers, store >>
  /\ UNCHANGED << aborted, builderVars >>

\* app.WaitGroup().Wait() of the process can return.
WaitCompletes == done /\ wg = 0

(* ---------------------------- fingerprinter --------------------------- *)

\* Attribute keys of package xattr.
RPCSystem == "rpc.system"
MessagingSystem == "messaging.system"
DBSystem == "db.system"
DBSqlTable == "db.sql.table"
DBStatement == "db.statement"
HTTPRoute == "http.route"
HTTPTarget == "http.target"
ServiceNameKey == "service.name"

AttrKeys ==
  { RPCSystem, MessagingSystem, DBSystem, DBSqlTable, DBStatement,
    HTTPRoute, HTTPTarget, ServiceNameKey }

\* An attribute that is not in the map, and one that is, with its string.
NoAttr == [has |-> FALSE, text |-> ""]
Attr(s) == [has |-> TRUE, text |-> s]

\* AttrMap.Has, AttrMap.Text, AttrMap.ServiceName
Has(m, key) == m[key].has
Text(m, key) == IF m[key].has THEN m[key].text ELSE ""
ServiceName(m) == Text(m, ServiceNameKey)

rpcSpanType == "rpc"
messagingSpanType == "messaging"
dbSpanType == "db"
httpSpanType == "http"
serviceSpanType == "service"
internalSpanType == "internal"
internalSpanKind == "internal"

\* SQL statements: a template, filled with an identifier and a literal and
\* written with some whitespace between the tokens sqlparser yields for it.
Ident(s) == [Type |-> "ident", Text |-> s]
Value(s) == [Type |-> "value", Text |-> s]
Punct(s) == [Type |-> "punct", Text |-> s]

Render(tpl, id, lit) ==
  CASE tpl = "SELECT" ->
         << Ident("SELECT"), Punct("*"), Ident("FROM"), Ident(id),
            Ident("WHERE"), Ident("id"), Punct("="), Value(lit) >>
    [] tpl = "select" ->
         << Ident("select"), Punct("*"), Ident("from"), Ident(id),
            Ident("where"), Ident("id"), Punct("="), Value(lit) >>
    [] tpl = "DELETE" ->
         << Ident("DELETE"), Ident("FROM"), Ident(id) >>
    [] tpl = "VALUE" ->
         << Ident("SELECT"), Value(lit) >>
    [] OTHER -> << >>

Templates == {"SELECT", "select", "DELETE", "VALUE", "EMPTY"}
Idents == {"users", "orders"}
Literals == {"1", "FROM"}

Spaces == {" ", "  "}

StmtParts == Templates \X Idents \X Literals \X Spaces

RECURSIVE Join(_, _)
Join(toks, sep) ==
  IF toks = << >> THEN ""
  ELSE IF Len(toks) = 1 THEN toks[1].Text
  ELSE toks[1].Text \o sep \o Join(Tail(toks), sep)

\* The text of a statement.
StmtText(part) == Join(Render(part[1], part[2], part[3]), part[4])

Statements == { StmtText(part) : part \in StmtParts }

\* sqlparser.NewTokenizer(s) and its NextToken up to io.EOF.
Tokenize(s) ==
  LET part == CHOOSE q \in StmtParts : StmtText(q) = s
  IN Render(part[1], part[2], part[3])

\* strings.ToUpper on the identifiers that occur.
ToUpper(s) ==
  CASE s = "select" -> "SELECT"
    [] s = "from"   -> "FROM"
    [] s = "where"  -> "WHERE"
    [] s = "id"     -> "ID"
    [] s = "users"  -> "USERS"
    [] s = "orders" -> "ORDERS"
    [] OTHER        -> s

SQLKeywords ==
  { "SELECT", "INSERT", "UPDATE", "DELETE", "CREATE", "DROP", "TRUNCATE",
    "WITH", "FROM", "TABLE", "JOIN", "UNION", "WHERE", "GROUP", "LIMIT",
    "ORDER", "HAVING" }

\* Mutant: every identifier counts as a keyword.
isSQLKeyword_M(s) == TRUE

isSQLKeyword(s) == ToUpper(s) \in SQLKeywords

\* xxhash.Digest: the bytes written so far; Sum64 is kept symbolic, equal
\* bytes giving equal sums.
NewDigest == ""
WriteString(digest, s) == digest \o s
Sum64(digest) == << "xxhash64", digest >>

RECURSIVE HashTokens(_, _)
HashTokens(digest, toks) ==
  IF toks = << >> THEN digest
  ELSE HashTokens(
         IF Head(toks).Type = "ident" /\ isSQLKeyword(Head(toks).Text)
         THEN WriteString(digest, Head(toks).Text)
         ELSE digest,
         Tail(toks))

hashDBStmt(digest, s) == HashTokens(digest, Tokenize(s))

\* The span and the digest a rule of assignSystemAndGroupID leaves.
Assigned(span, system, digest) ==
  [ span   |-> [span EXCEPT !.System = system],
    digest |-> WriteString(digest, system) ]

\* The db rule: db.sql.table, then db.statement.
AssignDB(span, digest) ==
  LET a  == Assigned(span, dbSpanType \o ":" \o Text(span.Attrs, DBSystem),
                     digest)
      d1 == IF Text(span.Attrs, DBSqlTable) # ""
            THEN WriteString(a.digest, Text(span.Attrs, DBSqlTable))
            ELSE a.digest
  IN IF Text(span.Attrs, DBStatement) # ""
     THEN [ span   |-> [a.span EXCEPT !.Name = Text(span.Attrs, DBStatement)],
            digest |-> hashDBStmt(d1, Text(span.Attrs, DBStatement)) ]
     ELSE [ span |-> a.span, digest |-> d1 ]

\* Mutant: the http rule is tried before the rpc rule.
assignSystemAndGroupID_M(span, digest) ==
  IF Has(span.Attrs, HTTPRoute) \/ Has(span.Attrs, HTTPTarget)
  THEN Assigned(span, httpSpanType \o ":" \o ServiceName(span.Attrs), digest)
  ELSE IF Text(span.Attrs, RPCSystem) # ""
  THEN Assigned(span, rpcSpanType \o ":" \o ServiceName(span.Attrs), digest)
  ELSE IF Text(span.Attrs, MessagingSystem) # ""
  THEN Assigned(span,
                messagingSpanType \o ":" \o Text(span.Attrs, MessagingSystem),
                digest)
  ELSE IF Text(span.Attrs, DBSystem) # ""
  THEN AssignDB(span, digest)
  ELSE IF span.ParentID = 0 \/ span.Kind # internalSpanKind
  THEN Assigned(span, serviceSpanType \o ":" \o ServiceName(span.Attrs),
                digest)
  ELSE Assigned(span, internalSpanType, digest)

assignSystemAndGroupID(span, digest) ==
  IF Text(span.Attrs, RPCSystem) # ""
  THEN Assigned(span, rpcSpanType \o ":" \o ServiceName(span.Attrs), digest)
  ELSE IF Text(span.Attrs, MessagingSystem) # ""
  THEN Assigned(span,
                messagingSpanType \o ":" \o Text(span.Attrs, MessagingSystem),
                digest)
  ELSE IF Text(span.Attrs, DBSystem) # ""
  THEN AssignDB(span, digest)
  ELSE IF Has(span.Attrs, HTTPRoute) \/ Has(span.Attrs, HTTPTarget)
  THEN Assigned(span, httpSpanType \o ":" \o ServiceName(span.Attrs), digest)
  ELSE IF span.ParentID = 0 \/ span.Kind # internalSpanKind
  THEN Assigned(span, serviceSpanType \o ":" \o ServiceName(span.Attrs),
                digest)
  ELSE Assigned(span, internalSpanType, digest)

\* Mutant: the digest gets the Name the classifier leaves in the span.
Fingerprint_M(span) ==
  LET name == assignSystemAndGroupID(span, NewDigest).span.Name
      d0   == WriteString(WriteString(NewDigest, span.Kind), name)
      r    == assignSystemAndGroupID(span, d0)
  IN [ span   |-> [r.span EXCEPT !.GroupID = Sum64(r.digest)],
       digest |-> r.digest ]

\* The end of newSpan: digest of Kind and Name, the classifier, Sum64.
Fingerprint(span) ==
  LET d0 == WriteString(WriteString(NewDigest, span.Kind), span.Name)
      r  == assignSystemAndGroupID(span, d0)
  IN [ span   |-> [r.span EXCEPT !.GroupID = Sum64(r.digest)],
       digest |-> r.digest ]

\* A Span as newSpan has built it before the digest part.
BuiltSpan(kind, name, parent, attrs) ==
  [ Kind |-> kind, Name |-> name, ParentID |-> parent, Attrs |-> attrs,
    System |-> "", GroupID |-> Sum64(NewDigest) ]

TextChoices(vals) == {NoAttr} \cup {Attr(v) : v \in vals}

\* Attribute maps over the keys the classifier looks at.
ClassifyAttrs ==
  { [k \in AttrKeys |->
       CASE k = RPCSystem       -> rpc
         [] k = MessagingSystem -> msg
         [] k = DBSystem        -> db
         [] k = DBSqlTable      -> NoAttr
         [] k = DBStatement     -> st
         [] k = HTTPRoute       -> route
         [] k = HTTPTarget      -> target
         [] OTHER               -> svc ] :
      rpc \in TextChoices({"", "grpc"}),
      msg \in TextChoices({"", "kafka"}),
      db \in TextChoices({"", "postgresql"}),
      st \in TextChoices({"SELECT  *  FROM  users  WHERE  id  =  1"}),
      route \in TextChoices({"/users/:id"}),
      target \in TextChoices({"/home"}),
      svc \in TextChoices({"web"}) }

ClassifySpans ==
  { BuiltSpan(kind, "GET /home", parent, attrs) :
      kind \in {"internal", "server"}, parent \in {0, 7},
      attrs \in ClassifyAttrs }

\* Attribute maps of spans that differ in their db attributes only.
DBAttrs(rpc, db, table, st) ==
  [k \in AttrKeys |->
     CASE k = RPCSystem   -> rpc
       [] k = DBSystem    -> db
       [] k = DBSqlTable  -> table
       [] k = DBStatement -> st
       [] k = ServiceNameKey -> Attr("web")
       [] OTHER           -> NoAttr ]

DBSpanPairs ==
  { << BuiltSpan(kind, name, 7, DBAttrs(rpc, db, t1, s1)),
       BuiltSpan(kind, name, 7, DBAttrs(rpc, db, t2, s2)) >> :
      kind \in {"client"}, name \in {"query"},
      rpc \in TextChoices({"grpc"}),
      db \in {Attr("postgresql"), Attr("mysql")},
      t1 \in TextChoices({"", "users", "orders"}),
      t2 \in TextChoices({"", "users", "orders"}),
      s1 \in TextChoices(Statements),
      s2 \in TextChoices(Statements) }

NoSpans == << BuiltSpan("", "", 0, [k \in AttrKeys |-> NoAttr]),
              BuiltSpan("", "", 0, [k \in AttrKeys |-> NoAttr]) >>

NoRes == << [span |-> NoSpans[1], digest |-> NewDigest],
            [span |-> NoSpans[2], digest |-> NewDigest] >>

\* newSpan reaches its digest part for the two spans.
Classify ==
  /\ cpc = "in"
  /\ cpc' = "out"
  /\ cres' = << Fingerprint(cspan[1]), Fingerprint(cspan[2]) >>
  /\ UNCHANGED << cspan, pipelineVars, numericVars >>

(* --------------------------- numeric fields --------------------------- *)

\* 2^n
RECURSIVE Pow2(_)
Pow2(n) == IF n = 0 THEN 1 ELSE 2 * Pow2(n - 1)

\* uint64 subtraction: span.EndTimeUnixNano - span.StartTimeUnixNano
SubUint(a, b) == ((a - b) + Pow2(TimeBits)) % Pow2(TimeBits)

\* The conversion of a uint64 to the int64 under time.Duration.
ToInt(u) == IF u >= Pow2(TimeBits - 1) THEN u - Pow2(TimeBits) ELSE u

\* out.Duration = time.Duration(span.EndTimeUnixNano - span.StartTimeUnixNano)
Duration(start, end) == ToInt(SubUint(end, start))

\* index.EventCount = uint8(len(span.Events))
EventCount(n) == n % 256

\* len(span.Events) of the wire spans tried.
EventLens == {0, 1, 2, 254, 255, 256, 257, 300, 511, 512}

Times == 0..(Pow2(TimeBits) - 1)

NoWire == [Start |-> 0, End |-> 0, Events |-> 0]
NoBuilt == [Duration |-> 0, EventCount |-> 0]

\* newSpan and newSpanIndex, as far as Duration and EventCount go.
Build ==
  /\ npc = "in"
  /\ npc' = "out"
  /\ built' = [ Duration   |-> Duration(wire.Start, wire.End),
                EventCount |-> EventCount(wire.Events) ]
  /\ UNCHANGED << wire, pipelineVars, fingerprintVars >>

(* --------------------------- specification ---------------------------- *)

\* NewTraceServiceServer: empty channel, free gate, the batcher registered
\* in the wait group and started with a fresh timer.
PipelineInit ==
  /\ pc = [c \in Calls |-> "idle"]
  /\ input = [c \in Calls |-> [ctxErr |-> "nil",
                                md |-> [ok |-> FALSE, dsn |-> <<>>]]]
  /\ req = [c \in Calls |-> <<>>]
  /\ pos = [c \in Calls |-> NoPos]
  /\ sent = [c \in Calls |-> 0]
  /\ proj = [c \in Calls |-> 0]
  /\ result = [c \in Calls |-> NilErr]
  /\ reslib = [c \in Calls |-> <<>>]
  /\ ch = <<>>
  /\ spans = <<>>
  /\ bufId = 1
  /\ bpc = "select"
  /\ cont = "none"
  /\ timer = "armed"
  /\ done = FALSE
  /\ wg = 1
  /\ gate = 0
  /\ flushers = {}
  /\ store = {}
  /\ handed = <<>>
  /\ aborted = FALSE

Init ==
  /\ PipelineInit
  /\ cpc = "idle"
  /\ cspan = NoSpans
  /\ cres = NoRes
  /\ npc = "idle"
  /\ wire = NoWire
  /\ built = NoBuilt

Next ==
  \/ \E c \in Calls : ExportStart(c)
  \/ \E c \in Calls : Overlay(c)
  \/ \E c \in Calls : Send(c)
  \/ BatcherRecv
  \/ TimerFire
  \/ BatcherTimer
  \/ BatcherDone
  \/ GateStart
  \/ \E f \in flushers : FlusherData(f)
  \/ \E f \in flushers : FlusherIndex(f)
  \/ \E c \in Calls : \E f \in flushers : ConcurrentMapAccess(c, f)
  \/ Shutdown

Spec == Init /\ [][Next]_vars

\* The classifier on every combination of the attributes it looks at.
InitClassify ==
  /\ PipelineInit
  /\ cpc = "in"
  /\ cspan \in { <<sp, sp>> : sp \in ClassifySpans }
  /\ cres = NoRes
  /\ npc = "idle"
  /\ wire = NoWire
  /\ built = NoBuilt

\* The fingerprint of two spans that differ in db attributes only.
InitFingerprint ==
  /\ PipelineInit
  /\ cpc = "in"
  /\ cspan \in DBSpanPairs
  /\ cres = NoRes
  /\ npc = "idle"
  /\ wire = NoWire
  /\ built = NoBuilt

NextClassify == Classify

SpecClassify == InitClassify /\ [][NextClassify]_vars

SpecFingerprint == InitFingerprint /\ [][NextClassify]_vars

\* Duration and EventCount for every start time, end time and number of
\* events tried.
InitBuild ==
  /\ PipelineInit
  /\ cpc = "idle"
  /\ cspan = NoSpans
  /\ cres = NoRes
  /\ npc = "in"
  /\ wire \in [Start : Times, End : Times, Events : EventLens]
  /\ built = NoBuilt

NextBuild == Build

SpecBuild == InitBuild /\ [][NextBuild]_vars

(* ------------------------- claims: pipeline --------------------------- *)

\* What grpc reports as the status code of an error Export returns:
\* the code of a status error, Unknown for any other error.
GrpcCode(err) ==
  CASE err.kind = "nil"    -> "OK"
    [] err.kind = "status" -> err.code
    [] OTHER               -> "Unknown"

\* (ProjectID, ID, TraceID, Time) of a row of a table.
RowKey(row, table) ==
  IF table = "spans_index"
  THEN << row.Span.ProjectID, row.Span.ID, row.Span.TraceID, row.Span.Time >>
  ELSE << row.Data.ProjectID, row.ID, row.TraceID, row.Time >>

\* (ProjectID, ID, TraceID, Time) the span built from an otlpSpan must have.
ItemKey(item) ==
  LET w == WireSpan(item.call, item.k)
  IN << Projects[item.project].ID, w.SpanId, w.TraceId, w.StartTimeUnixNano >>

\* The rows of a table the store has received for the k-th span of call c.
RowsOf(table, c, k) ==
  { <<call, i>> \in store \X (1..batchSize) :
      /\ call.table = table
      /\ i <= Len(call.rows)
      /\ RowKey(call.rows[i], table)[2] = WireSpan(c, k).SpanId }

RECURSIVE Flatten(_)
Flatten(hs) == IF hs = <<>> THEN <<>> ELSE Head(hs).items \o Flatten(Tail(hs))

\* The buffer is the batch of the flushSpans call the batcher is in or has
\* made last.
BufferHanded == bpc = "gate" \/ (bpc = "exited" /\ cont = "shutdown")

\* All spans enqueued so far, in the order the pipeline holds them:
\* assembled batches, the buffer, the channel.
Pipeline ==
  Flatten(handed) \o (IF BufferHanded THEN <<>> ELSE spans) \o ch

\* C1: shutdown drain. Once the process wait can complete, every item that
\* was enqueued by a returned Export call before the shutdown signal has
\* been received by the store in an insert into spans_data and one into
\* spans_index, also the items that were still in the channel when the
\* batcher observed the signal.
ShutdownDrain ==
  WaitCompletes =>
    \A ck \in EnqueuedByReturned :
      /\ RowsOf("spans_data", ck[1], ck[2]) # {}
      /\ RowsOf("spans_index", ck[1], ck[2]) # {}

\* C2: at most cores flushers hold a gate permit, and a flusher is started
\* only from a state in which fewer than cores flushes are in flight: with
\* cores flushes blocked in the store the batcher waits in gate.Start.
GateBound ==
  /\ [](Cardinality(flushers) <= cores /\ gate = Cardinality(flushers))
  /\ [][ (\E f \in flushers' : f \notin flushers /\ f.stage = "start")
           => Cardinality(flushers) < cores ]_vars

\* C2 witness: cores flushes in flight and the batcher waiting at the gate.
GateBlocked == Cardinality(flushers) = cores /\ bpc = "gate"

\* C3 (as stated): when exactly batchSize items have been fed, the flush
\* that is triggered carries batchSize rows; no smaller batch goes out.
FlushBySizeOriginal ==
  [][ (handed = <<>> /\ handed' # <<>> /\ ~done' /\ Fed = batchSize)
        => Len(handed'[1].items) = batchSize ]_vars

\* C3 (amended): a flush triggered by the size check carries exactly
\* batchSize rows; and when exactly batchSize items are fed and all of them
\* leave the buffer through the size check (no timer fire or shutdown was
\* handled while a proper prefix was buffered), exactly one flush is
\* triggered and the store receives one insert into spans_data and one into
\* spans_index, each with batchSize rows.
FlushBySize ==
  /\ \A n \in 1..Len(handed) :
       handed[n].cause = "size" => Len(handed[n].items) = batchSize
  /\ ( /\ Fed = batchSize
       /\ Len(Flatten(handed)) = Fed
       /\ \A n \in 1..Len(handed) : handed[n].cause = "size" )
     => /\ Len(handed) = 1
        /\ \A call \in store : Len(call.rows) = batchSize
        /\ Cardinality({call \in store : call.table = "spans_data"}) <= 1
        /\ Cardinality({call \in store : call.table = "spans_index"}) <= 1
        /\ (flushers = {} /\ bpc # "gate") => Cardinality(store) = 2

\* C3 witness: batchSize items fed, one size flush, both inserts received.
FlushBySizeReached ==
  /\ Fed = batchSize
  /\ Len(handed) = 1
  /\ handed[1].cause = "size"
  /\ flushers = {}
  /\ Cardinality(store) = 2

\* C4 (as stated): when k items, 0 < k < batchSize, have been fed, the
\* flush that is triggered carries all k rows.
FlushByTimeOriginal ==
  [][ ( /\ handed = <<>> /\ handed' # <<>> /\ ~done'
        /\ 0 < Fed /\ Fed < batchSize )
        => Len(handed'[1].items) = Fed ]_vars

\* C4 (amended): a timer fire handled with a non-empty buffer triggers
\* exactly one flush, which carries all rows buffered at that moment
\* (between 1 and batchSize - 1); a timer fire handled with an empty buffer
\* triggers no flush.
FlushByTime ==
  /\ [](\A n \in 1..Len(handed) :
         handed[n].cause = "timer" =>
           0 < Len(handed[n].items) /\ Len(handed[n].items) < batchSize)
  /\ [][ (bpc = "select" /\ timer = "fired") =>
          /\ timer' = "armed" =>
                /\ spans = <<>>
                /\ handed' = handed /\ wg' = wg /\ flushers' = flushers
          /\ (timer' = "stopped" /\ bpc' = "gate") =>
                /\ spans # <<>>
                /\ handed' = Append(handed, Handed(spans, "timer"))
                /\ wg' = wg + 1 ]_vars

\* C4 witness: two items fed and flushed by one timer fire.
FlushByTimeReached ==
  /\ Fed = 2
  /\ Len(handed) = 1
  /\ handed[1].cause = "timer"
  /\ Len(handed[1].items) = 2
  /\ timer = "armed"

\* C5: the outcome of Export by authentication: a cancelled context gives
\* Canceled, missing metadata or header InvalidArgument, an unknown token
\* NotFound; a matching token succeeds and every row built from the call
\* has the matched project's ID.
ExportOutcome ==
  \A c \in Calls :
    pc[c] = "returned" =>
      LET in   == input[c]
          code == GrpcCode(result[c])
          tok  == IF in.md.ok /\ in.md.dsn # <<>> /\ ~ParseDSN(in.md.dsn[1]).err
                  THEN ParseDSN(in.md.dsn[1]).Token ELSE ""
      IN /\ in.ctxErr = "canceled" => code = "Canceled"
         /\ (in.ctxErr # "canceled" /\ (~in.md.ok \/ in.md.dsn = <<>>))
              => code = "InvalidArgument"
         /\ (in.ctxErr # "canceled" /\ tok # "" /\ MatchingProjects(tok) = {})
              => code = "NotFound"
         /\ (in.ctxErr # "canceled" /\ tok # "" /\ MatchingProjects(tok) # {})
              => /\ code = "OK"
                 /\ \A call \in store : \A i \in 1..Len(call.rows) :
                      RowKey(call.rows[i], call.table)[2] \in
                         { WireSpan(c, k).SpanId : k \in 1..sent[c] }
                      => RowKey(call.rows[i], call.table)[1] =
                           Projects[FirstMatch(tok)].ID

\* C6: every insert the store receives has one row per item of a batch
\* handed to the flusher, the i-th row carrying the (ProjectID, ID, TraceID,
\* Time) of the span built from the i-th item; the index rows of a flush
\* pair with the data rows of the same flush.
RowsMatchBatch ==
  /\ \A call \in store :
       \E n \in 1..Len(handed) :
         /\ Len(call.rows) = Len(handed[n].items)
         /\ \A i \in 1..Len(call.rows) :
              RowKey(call.rows[i], call.table) = ItemKey(handed[n].items[i])
  /\ \A f \in flushers :
       f.stage = "index" => Len(f.index) = Len(f.batch)
  /\ \A x \in store :
       x.table = "spans_index" =>
         \E d \in store :
           /\ d.table = "spans_data"
           /\ Len(d.rows) = Len(x.rows)
           /\ \A i \in 1..Len(x.rows) :
                RowKey(d.rows[i], "spans_data") = RowKey(x.rows[i], "spans_index")

\* C6 witness: a completed flush of a batch with spans of two projects.
RowsMatchBatchReached ==
  \E x \in store :
    /\ x.table = "spans_index"
    /\ Len(x.rows) >= 2
    /\ x.rows[1].Span.ProjectID # x.rows[2].Span.ProjectID

\* C7: FIFO within one Export call. Along the pipeline (batches in the
\* order assembled, then the buffer, then the channel) the spans of one call
\* stand in encounter order, and a span is in the pipeline only after all
\* spans of its call that precede it.
FIFOWithinCall ==
  \A j \in 1..Len(Pipeline) :
    /\ \A i \in 1..(j - 1) :
         Pipeline[i].call = Pipeline[j].call => Pipeline[i].k < Pipeline[j].k
    /\ \A k \in 1..(Pipeline[j].k - 1) :
         \E i \in 1..(j - 1) :
           Pipeline[i].call = Pipeline[j].call /\ Pipeline[i].k = k

\* C7 witness: a batch in which the spans of two calls interleave.
FIFOInterleaved ==
  \E n \in 1..Len(handed) :
    /\ Len(handed[n].items) = 3
    /\ handed[n].items[1].call = handed[n].items[3].call
    /\ handed[n].items[1].call # handed[n].items[2].call

\* C8: the channel never holds more than batchSize items; while it holds
\* batchSize items no call that has spans left enqueues or returns; and the
\* channel gets shorter only by the batcher receiving its head.
ChannelBound ==
  /\ [](Len(ch) <= batchSize)
  /\ [][ Len(ch) = batchSize =>
          \A c \in Calls :
            pc[c] = "send" => (pc'[c] = "send" /\ sent'[c] = sent[c]) ]_vars
  /\ [][ Len(ch') < Len(ch) =>
          (bpc = "select" /\ ch' = Tail(ch) /\ spans' # spans) ]_vars

\* C8 witness: a full channel and a call with a span left to enqueue.
ChannelFull ==
  Len(ch) = batchSize /\ \E c \in Calls : pc[c] = "send"

(* ------------------------- claims: fingerprinter ---------------------- *)

SpanIn(i) == cspan[i]
SpanOut(i) == cres[i].span
Prefix(str, p) == Len(str) >= Len(p) /\ SubSeq(str, 1, Len(p)) = p

\* The System the cascade gives when rules 1-3 ask whether present(m, key).
Cascade(span, present(_, _)) ==
  LET m == span.Attrs
  IN IF present(m, RPCSystem) THEN "rpc:" \o ServiceName(m)
     ELSE IF present(m, MessagingSystem)
     THEN "messaging:" \o Text(m, MessagingSystem)
     ELSE IF present(m, DBSystem) THEN "db:" \o Text(m, DBSystem)
     ELSE IF Has(m, HTTPRoute) \/ Has(m, HTTPTarget)
     THEN "http:" \o ServiceName(m)
     ELSE IF span.ParentID = 0 \/ span.Kind # "internal"
     THEN "service:" \o ServiceName(m)
     ELSE "internal"

NonEmptyText(m, key) == Text(m, key) # ""

\* C9 as stated: System is decided by the first rule that matches in the
\* order rpc.system, messaging.system, db.system, http.route/http.target,
\* root-or-non-internal, else "internal", a rule matching when its attribute
\* is set; with rpc.system and http.route both set System starts with
\* "rpc:"; System is never empty.
ClassifierCascadeOriginal ==
  cpc = "out" =>
    /\ SpanOut(1).System = Cascade(SpanIn(1), Has)
    /\ (Has(SpanIn(1).Attrs, RPCSystem) /\ Has(SpanIn(1).Attrs, HTTPRoute)
          => Prefix(SpanOut(1).System, "rpc:"))
    /\ SpanOut(1).System # ""

\* C9: System is decided by the first rule that matches in the order
\* rpc.system, messaging.system, db.system, http.route/http.target,
\* root-or-non-internal, else "internal", where the first three rules match
\* on a non-empty text and the fourth on the key being set; with a non-empty
\* rpc.system and http.route set System starts with "rpc:"; System is never
\* empty.
ClassifierCascade ==
  cpc = "out" =>
    /\ SpanOut(1).System = Cascade(SpanIn(1), NonEmptyText)
    /\ (Text(SpanIn(1).Attrs, RPCSystem) # "" /\ Has(SpanIn(1).Attrs, HTTPRoute)
          => Prefix(SpanOut(1).System, "rpc:"))
    /\ SpanOut(1).System # ""

\* A classified span with rpc.system "grpc" and http.route both set.
ClassifierCascadeReached ==
  /\ cpc = "out"
  /\ Text(SpanIn(1).Attrs, RPCSystem) = "grpc"
  /\ Has(SpanIn(1).Attrs, HTTPRoute)
  /\ Text(SpanIn(1).Attrs, DBSystem) = "postgresql"
  /\ SpanOut(1).System = "rpc:web"

\* The db rule decides both spans of the pair.
BothDB ==
  \A i \in {1, 2} :
    /\ Text(SpanIn(i).Attrs, RPCSystem) = ""
    /\ Text(SpanIn(i).Attrs, MessagingSystem) = ""
    /\ Text(SpanIn(i).Attrs, DBSystem) # ""

SameButTableAndStatement ==
  /\ SpanIn(1).Kind = SpanIn(2).Kind
  /\ SpanIn(1).Name = SpanIn(2).Name
  /\ SpanIn(1).ParentID = SpanIn(2).ParentID
  /\ \A k \in AttrKeys \ {DBSqlTable, DBStatement} :
       SpanIn(1).Attrs[k] = SpanIn(2).Attrs[k]

\* Two statements written from one template: they differ in the identifier,
\* the literal and the whitespace at most.
SameTemplate(s1, s2) ==
  \E p, q \in StmtParts :
    StmtText(p) = s1 /\ StmtText(q) = s2 /\ p[1] = q[1]

LiteralsOnly ==
  /\ BothDB
  /\ SameButTableAndStatement
  /\ SpanIn(1).Attrs[DBSqlTable] = SpanIn(2).Attrs[DBSqlTable]
  /\ Has(SpanIn(1).Attrs, DBStatement) = Has(SpanIn(2).Attrs, DBStatement)
  /\ SameTemplate(Text(SpanIn(1).Attrs, DBStatement),
                  Text(SpanIn(2).Attrs, DBStatement))

EqualGroupID ==
  cpc = "out" /\ LiteralsOnly => SpanOut(1).GroupID = SpanOut(2).GroupID

TableOnly ==
  /\ SameButTableAndStatement
  /\ SpanIn(1).Attrs[DBStatement] = SpanIn(2).Attrs[DBStatement]

\* C10 as stated: db spans equal in Kind, Name, db.system and db.sql.table
\* whose statements differ in non-keyword tokens only get equal GroupID; two
\* spans that are otherwise identical and differ in db.sql.table feed
\* different input to the digest and get different GroupID.
FingerprintDeterminismOriginal ==
  /\ EqualGroupID
  /\ cpc = "out" /\ TableOnly
       /\ SpanIn(1).Attrs[DBSqlTable] # SpanIn(2).Attrs[DBSqlTable]
       => /\ cres[1].digest # cres[2].digest
          /\ SpanOut(1).GroupID # SpanOut(2).GroupID

\* C10: db spans equal in Kind, Name, db.system and db.sql.table whose
\* statements differ in non-keyword tokens only get equal GroupID; two spans
\* that the db rule decides, otherwise identical, feed different input to the
\* digest exactly when the texts of their db.sql.table differ, so a table
\* that is absent and one that is the empty string get equal GroupID.
FingerprintDeterminism ==
  /\ EqualGroupID
  /\ cpc = "out" /\ TableOnly /\ BothDB
       => /\ (cres[1].digest # cres[2].digest)
               <=> (Text(SpanIn(1).Attrs, DBSqlTable)
                      # Text(SpanIn(2).Attrs, DBSqlTable))
          /\ (Text(SpanIn(1).Attrs, DBSqlTable)
                = Text(SpanIn(2).Attrs, DBSqlTable)
                => SpanOut(1).GroupID = SpanOut(2).GroupID)

\* Two fingerprinted db spans on one table whose statements differ in the
\* identifier, the literal and the whitespace.
FingerprintDeterminismReached ==
  /\ cpc = "out"
  /\ LiteralsOnly
  /\ Text(SpanIn(1).Attrs, DBSqlTable) = "users"
  /\ Text(SpanIn(1).Attrs, DBStatement) = "SELECT * FROM users WHERE id = 1"
  /\ Text(SpanIn(2).Attrs, DBStatement)
       = "SELECT  *  FROM  orders  WHERE  id  =  FROM"
  /\ SpanOut(1).Name = "SELECT * FROM users WHERE id = 1"
  /\ SpanOut(1).GroupID = SpanOut(2).GroupID
  /\ cres[1].digest = "clientquerydb:postgresqlusersSELECTFROMWHERE"

\* The template a statement was written from, and the keywords that
\* template has, in statement order.
TemplateOf(stmt) == (CHOOSE q \in StmtParts : StmtText(q) = stmt)[1]

KeywordsOf(tpl) ==
  CASE tpl = "SELECT" -> "SELECTFROMWHERE"
    [] tpl = "select" -> "selectfromwhere"
    [] tpl = "DELETE" -> "DELETEFROM"
    [] tpl = "VALUE"  -> "SELECT"
    [] OTHER          -> ""

\* Rule 3 decides the span.
DBRule(span) ==
  /\ Text(span.Attrs, RPCSystem) = ""
  /\ Text(span.Attrs, MessagingSystem) = ""
  /\ Text(span.Attrs, DBSystem) # ""

\* The db extras: db.sql.table, then the keywords of db.statement.
DBExtras(span) ==
  IF DBRule(span)
  THEN Text(span.Attrs, DBSqlTable)
         \o KeywordsOf(TemplateOf(Text(span.Attrs, DBStatement)))
  ELSE ""

\* The Name rule 3 leaves in the span.
RewrittenName(span) ==
  IF DBRule(span) /\ Text(span.Attrs, DBStatement) # ""
  THEN Text(span.Attrs, DBStatement)
  ELSE span.Name

\* C11 as stated: the digest is fed Kind, the Name as it stands after the
\* rule-3 rewrite, System, the db extras, in this order.
DigestOrderOriginal ==
  cpc = "out" =>
    \A i \in {1, 2} :
      /\ SpanOut(i).Name = RewrittenName(SpanIn(i))
      /\ cres[i].digest =
           SpanIn(i).Kind \o SpanOut(i).Name \o SpanOut(i).System
             \o DBExtras(SpanIn(i))

\* C11: the digest is fed Kind, then the wire Name (the Name before rule 3
\* replaces it by db.statement), then System, then the db extras
\* (db.sql.table, then the keyword tokens of the statement in statement
\* order); the span's Name after the classifier is the statement when rule 3
\* applies with a statement, the wire name otherwise.
DigestOrder ==
  cpc = "out" =>
    \A i \in {1, 2} :
      /\ SpanOut(i).Name = RewrittenName(SpanIn(i))
      /\ cres[i].digest =
           SpanIn(i).Kind \o SpanIn(i).Name \o SpanOut(i).System
             \o DBExtras(SpanIn(i))

\* A fingerprinted db span whose Name was replaced by its statement.
DigestOrderReached ==
  /\ cpc = "out"
  /\ DBRule(SpanIn(1))
  /\ SpanIn(1).Name = "query"
  /\ SpanOut(1).Name = "DELETE FROM orders"
  /\ cres[1].digest = "clientquerydb:mysqlordersDELETEFROM"
  /\ SpanOut(1).GroupID = Sum64("clientquerydb:mysqlordersDELETEFROM")

(* ----------------------- claims: flusher, lifecycle ------------------- *)

\* The store has received an insert into table with one row per item of
\* batch, in order.
Inserted(st, table, batch) ==
  \E call \in st :
    /\ call.table = table
    /\ Len(call.rows) = Len(batch)
    /\ \A i \in 1..Len(batch) :
         RowKey(call.rows[i], table) = ItemKey(batch[i])

\* The flusher of batch in a set of flushers.
FlusherOf(fs, batch) == { g \in fs : g.batch = batch }

\* C12: within a flush the insert into spans_data is issued before the one
\* into spans_index; whatever error the first returns, the second is issued;
\* an error changes nothing outside the flusher (no retry, nothing reaches
\* the batcher or Export); when the second insert has returned the flusher
\* gives back its gate permit and its wait-group count, once, and not before.
FlushInserts ==
  /\ [](\A f \in flushers :
          /\ f.stage \in {"start", "index"}
          /\ ~Inserted(store, "spans_index", f.batch)
          /\ f.stage = "index" => Inserted(store, "spans_data", f.batch))
  /\ [][ \A f \in flushers : f \notin flushers' =>
           /\ UNCHANGED << ingressVars, ch, batcherVars, done >>
           /\ f.stage = "start" =>
                /\ \E g \in FlusherOf(flushers', f.batch) : g.stage = "index"
                /\ Inserted(store', "spans_data", f.batch)
                /\ UNCHANGED << wg, gate >>
           /\ f.stage = "index" =>
                /\ FlusherOf(flushers', f.batch) = {}
                /\ Inserted(store', "spans_index", f.batch)
                /\ wg' = wg - 1
                /\ gate' = gate - 1 ]_vars
  /\ [][ (wg' < wg \/ gate' < gate) =>
           \/ \E f \in flushers : f.stage = "index" /\ f \notin flushers'
           \/ bpc' = "exited" /\ bpc # "exited" /\ gate' >= gate ]_vars

\* C12 witness: a flush of two items has gone through both inserts and has
\* given back its permit and its count, the batcher still running.
FlushInsertsReached ==
  /\ Len(handed) = 1
  /\ Len(handed[1].items) = 2
  /\ Inserted(store, "spans_data", handed[1].items)
  /\ Inserted(store, "spans_index", handed[1].items)
  /\ flushers = {}
  /\ gate = 0
  /\ wg = 1
  /\ bpc = "select"

\* C13: the wait-group counts the batcher while it runs, every flushSpans
\* call that waits at the gate and every flusher in flight; it is raised only
\* by the running batcher, which holds its own count then; so it is zero only
\* after the batcher has exited and every batch handed to flushSpans has gone
\* through both inserts.
WaitGroupAccounting ==
  /\ [](wg = (IF bpc = "exited" THEN 0 ELSE 1)
               + (IF bpc = "gate" THEN 1 ELSE 0)
               + Cardinality(flushers))
  /\ [](wg = 0 =>
          /\ bpc = "exited"
          /\ flushers = {}
          /\ \A n \in 1..Len(handed) :
               /\ Inserted(store, "spans_data", handed[n].items)
               /\ Inserted(store, "spans_index", handed[n].items))
  /\ [][ wg' > wg => (bpc = "select" /\ wg >= 1 /\ bpc' = "gate") ]_vars

\* C13 witness: after shutdown the wait-group is back at zero, the last
\* batch having left through the residual flush.
WaitGroupZero ==
  /\ done
  /\ wg = 0
  /\ Len(handed) = 2
  /\ handed[1].cause = "size"
  /\ handed[2].cause = "shutdown"
  /\ Cardinality(store) = 4

\* The batcher can take a step whatever the store does: it is in its select,
\* or it is in gate.Start and a permit is free.
BatcherFree == bpc = "select" \/ (bpc = "gate" /\ gate < GateCap)

\* C14 as stated: in every state in which flushers are held up in the store
\* the running batcher can still take a step.
BatcherNeverBlockedOriginal ==
  (flushers # {} /\ bpc # "exited") => BatcherFree

\* C14: the batcher makes no store call itself, and it is held up only in
\* gate.Start, only while cores flushes are in flight: with fewer than cores
\* flushes held up in the store it can always take a step, and in its select
\* it receives whatever the flushers do (as long as the process has not been
\* aborted); with cores flushes held up in the
\* store and a batch to hand over it waits for a permit.
BatcherBlocksOnlyAtGate ==
  /\ []((bpc # "exited" /\ ~BatcherFree) =>
          (bpc = "gate" /\ Cardinality(flushers) = cores))
  /\ [](Cardinality(flushers) < cores /\ bpc # "exited" => BatcherFree)
  /\ []((~aborted /\ bpc = "select" /\ Len(ch) > 0) => ENABLED BatcherRecv)
  /\ [][ store' # store => UNCHANGED << batcherVars, ch >> ]_vars

\* C14 witness: with cores flushes in flight the batcher has gone on
\* receiving and has another item waiting in the channel.
BatcherReceivesWhileFlushing ==
  /\ Cardinality(flushers) = cores
  /\ \A f \in flushers : f.stage = "start"
  /\ bpc = "select"
  /\ Len(spans) = 1
  /\ Len(ch) = 1

(* ----------------------- claims: shared resource map ------------------ *)

\* An otlpSpan that references the r-th resource map of call c is in the
\* channel, in the batcher's buffer, or in the batch of a flusher that has
\* not built its spans yet.
Referenced(c, r) ==
  \E item \in { ch[i] : i \in 1..Len(ch) }
                \cup { spans[i] : i \in 1..Len(spans) }
                \cup UNION { { f.batch[i] : i \in 1..Len(f.batch) } :
                               f \in { g \in flushers : g.stage = "start" } } :
    item.call = c /\ item.res = r

\* Call c does the overlay of a scope in this step.
OverlayStep(c) ==
  pc[c] = "scope" /\ << pc'[c], pos'[c] >> # << pc[c], pos[c] >>

\* C15: no ingress task writes otel.library.name into a resource map while
\* an otlpSpan that references this map is in the channel, in the batcher's
\* buffer or with a flusher that has yet to read it.
ResourceMapPrivate ==
  [][ \A c \in Calls : OverlayStep(c) => ~Referenced(c, pos[c].r) ]_vars

\* One ResourceSpans with two scopes of one span each, and two ResourceSpans
\* with one scope of one span each.
TwoScopes == << <<1, 1>> >>
TwoResources == << <<1>>, <<1>> >>

\* Call c has done the overlay of its second scope.
SecondOverlayDone(c) ==
  pc[c] = "returned" \/ (pc[c] = "send" /\ pos[c].s = 2)

\* C16: with two scopes in one ResourceSpans, the span of the first scope
\* gets the library name of the second scope when its Span is built after
\* the overlay of the second scope and the name of the first scope when it
\* is built before; with one scope per ResourceSpans every span gets the name
\* of its own scope.
LibraryOverwrite ==
  [][ \A f \in flushers : (f.stage = "start" /\ f \notin flushers') =>
        \A g \in FlusherOf(flushers', f.batch) :
          \A i \in 1..Len(f.batch) :
            LET c == f.batch[i].call
                lib == g.index[i].Span.Library
            IN /\ (req[c] = TwoScopes /\ f.batch[i].k = 1) =>
                    lib = (IF SecondOverlayDone(c)
                           THEN LibNames[2] ELSE LibNames[1])
               /\ (req[c] = TwoScopes /\ f.batch[i].k = 2) =>
                    lib = LibNames[2]
               /\ req[c] = TwoResources => lib = LibNames[1] ]_vars

\* The index row of span number id that the store has received.
IndexRow(id) ==
  { call.rows[i].Span : <<call, i>> \in
      { <<x, j>> \in store \X (1..batchSize) :
          /\ x.table = "spans_index"
          /\ j <= Len(x.rows)
          /\ x.rows[j].Span.ID = id } }

\* C16 witness: two calls with the same two-scope request; the first span of
\* one was built before the second overlay, that of the other after it.
LibraryOverwriteBothWays ==
  /\ req[1] = TwoScopes
  /\ req[2] = TwoScopes
  /\ \E row \in IndexRow(WireSpan(1, 1).SpanId) : row.Library = LibNames[1]
  /\ \E row \in IndexRow(WireSpan(2, 1).SpanId) : row.Library = LibNames[2]

(* -------------------------- claims: numeric fields -------------------- *)

Min(a, b) == IF a <= b THEN a ELSE b

\* C17: Duration is the end time minus the start time when the end is after
\* the start, and zero otherwise; never negative, never wrapped around.
DurationSaturates ==
  npc = "out" =>
    /\ built.Duration = (IF wire.End > wire.Start
                         THEN wire.End - wire.Start ELSE 0)
    /\ built.Duration >= 0

\* C18: EventCount is the number of events, capped at 255; never the number
\* reduced modulo 256.
EventCountSaturates ==
  npc = "out" => built.EventCount = Min(wire.Events, 255)

(* ---------------------------- claims: batcher ------------------------- *)

\* The items of a sequence of otlpSpans, as (call, number) pairs.
ItemsOf(q) == { << q[i].call, q[i].k >> : i \in 1..Len(q) }

AllSent == UNION { { <<c, k>> : k \in 1..sent[c] } : c \in Calls }

\* C19: every item enqueued is in exactly one place: in one batch handed to
\* flushSpans, in the buffer, or still in the channel; nothing is dropped or
\* handed over twice, and once the batcher has exited every item it has
\* received is in a batch (the buffer left at shutdown goes out in the
\* residual flush); every batch has between 1 and batchSize items.
HandedExactlyOnce ==
  /\ Len(Pipeline) = Fed
  /\ ItemsOf(Pipeline) = AllSent
  /\ Cardinality(ItemsOf(Pipeline)) = Len(Pipeline)
  /\ bpc = "exited" => Len(Flatten(handed)) + Len(ch) = Fed
  /\ \A n \in 1..Len(handed) :
       1 <= Len(handed[n].items) /\ Len(handed[n].items) <= batchSize

\* C19 witness: the batcher has exited after a timer flush of one item and a
\* residual flush of two.
HandedExactlyOnceReached ==
  /\ bpc = "exited"
  /\ ch = <<>>
  /\ Fed = 3
  /\ Len(handed) = 2
  /\ handed[1].cause = "timer" /\ Len(handed[1].items) = 1
  /\ handed[2].cause = "shutdown" /\ Len(handed[2].items) = 2

\* C20: the slice a flusher was given is not the slice the batcher appends
\* to: while the batcher is in its loop its buffer is an allocation no
\* flusher in flight holds, no two flushers hold the same allocation, and
\* the contents of a flusher's slice stay what was handed to flushSpans.
ExclusiveBatch ==
  /\ [](\A f \in flushers :
          /\ bpc = "select" => f.buf # bufId
          /\ \A g \in flushers : g.buf = f.buf => g = f
          /\ \E n \in 1..Len(handed) : handed[n].items = f.batch)
  /\ [][ /\ \A f \in flushers : \A g \in flushers' :
              g.buf = f.buf => g.batch = f.batch
         /\ (spans' # spans /\ spans' # <<>>) =>
              /\ bufId' = bufId
              /\ \A f \in flushers \cup flushers' : f.buf # bufId ]_vars

\* C20 witness: with the first batch still with its flusher the batcher has
\* received an item into a new buffer.
ExclusiveBatchReached ==
  /\ bpc = "select"
  /\ bufId = 2
  /\ Len(spans) = 1
  /\ \E f \in flushers : f.buf = 1 /\ Len(f.batch) = batchSize

====
